---- MODULE Spec2Model ----
(***************************************************************************)
(* dotini: INIParser::from_string / from_file / parse (src/src/lib.rs).    *)
(* Text is a sequence of one-character strings.  The pest grammar file     *)
(* ini.pest is not part of the sources at hand; the operators of the       *)
(* section "grammar" follow the written description of the grammar.        *)
(***************************************************************************)
EXTENDS Integers, Sequences, FiniteSets, TLC

\* ------------------------------------------------------------------ bounds
MaxLines == 3
MaxNodes == 4

\* ------------------------------------------------------------------ text
Untagged == <<"u", "n", "t", "a", "g", "g", "e", "d">>

SectionNames == {<<"a">>, <<"b">>}
PropNames    == {<<"k">>, <<"j">>}
PropValues   == {<<"v">>, <<"w">>}

CommentChars == {";", "#"}

SectionLines  == {<<"[">> \o s \o <<"]">> : s \in SectionNames}
PropertyLines == {n \o <<"=">> \o v : n \in PropNames, v \in PropValues}
SpacedLines   == {<<" ", "k", " ", "=", " ", "v", " ">>}
CommentLines  == {<<";", "k", "=", "v">>, <<"#", "[", "a", "]">>}
BlankLines    == {<<>>, <<" ">>}
BadLines      == {<<"[", "a">>, <<"k">>}

RECURSIVE JoinLines(_)
JoinLines(ls) ==
    IF ls = <<>> THEN <<>>
    ELSE IF Len(ls) = 1 THEN ls[1]
    ELSE ls[1] \o <<"\n">> \o JoinLines(Tail(ls))

SeqsUpTo(S, n) == UNION {[1..m -> S] : m \in 0..n}

ValidLinePool == SectionLines \cup PropertyLines \cup SpacedLines
                 \cup CommentLines \cup BlankLines
LinePool  == ValidLinePool \cup BadLines
Documents == {JoinLines(ls) : ls \in SeqsUpTo(LinePool, MaxLines)}

\* ------------------------------------------------------------------ grammar
RECURSIVE IndexOf(_, _, _)
IndexOf(s, c, from) ==
    IF from > Len(s) THEN 0
    ELSE IF s[from] = c THEN from
    ELSE IndexOf(s, c, from + 1)

RECURSIVE TrimLeft(_)
TrimLeft(s) ==
    IF s # <<>> /\ Head(s) = " " THEN TrimLeft(Tail(s)) ELSE s

RECURSIVE TrimRight(_)
TrimRight(s) ==
    IF s # <<>> /\ s[Len(s)] = " " THEN TrimRight(SubSeq(s, 1, Len(s) - 1)) ELSE s

Trim(s) == TrimRight(TrimLeft(s))

RECURSIVE SplitLines(_)
SplitLines(t) ==
    LET i == IndexOf(t, "\n", 1) IN
    IF i = 0 THEN <<t>>
    ELSE <<SubSeq(t, 1, i - 1)>> \o SplitLines(SubSeq(t, i + 1, Len(t)))

Pair(rule, inner) == [rule |-> rule, inner |-> inner]
EOI == Pair("EOI", <<>>)

NoMatch == [ok |-> FALSE, pairs |-> <<>>]
Match(pairs) == [ok |-> TRUE, pairs |-> pairs]

\* rule section: "[" identifier "]", the identifier without "]" or newline
SectionRule(t) ==
    LET close == IndexOf(t, "]", 1) IN
    IF close = Len(t) /\ close > 2
    THEN Match(<<Pair("section", <<SubSeq(t, 2, close - 1)>>)>>)
    ELSE NoMatch

\* rule property: identifier "=" value, the identifier without "=", "[" or newline
PropertyRule(t) ==
    LET eq    == IndexOf(t, "=", 1)
        name  == TrimRight(SubSeq(t, 1, eq - 1))
        value == TrimLeft(SubSeq(t, eq + 1, Len(t)))
    IN  IF eq > 1 /\ IndexOf(name, "[", 1) = 0
        THEN Match(<<Pair("property", <<name, value>>)>>)
        ELSE NoMatch

\* variant: no comment rule
LineRuleNoComment(line) ==
    LET t == Trim(line) IN
    IF t = <<>> THEN Match(<<>>)
    ELSE IF t[1] = "[" THEN SectionRule(t)
    ELSE PropertyRule(t)

\* one line: blank | comment | section | property
LineRule(line) ==
    LET t == Trim(line) IN
    IF t = <<>> THEN Match(<<>>)
    ELSE IF t[1] \in CommentChars THEN Match(<<>>)
    ELSE IF t[1] = "[" THEN SectionRule(t)
    ELSE PropertyRule(t)

RECURSIVE LinesRule(_)
LinesRule(ls) ==
    IF ls = <<>> THEN Match(<<>>)
    ELSE LET h == LineRule(Head(ls))
             r == LinesRule(Tail(ls))
         IN  IF h.ok /\ r.ok THEN Match(h.pairs \o r.pairs) ELSE NoMatch

\* Ini::parse(Rule::file, content) followed by .next() and .into_inner():
\* the top-level pairs of the file rule, closed by EOI
FileRule(text) ==
    LET r == LinesRule(SplitLines(text)) IN
    IF r.ok THEN Match(r.pairs \o <<EOI>>) ELSE NoMatch

\* ------------------------------------------------------------------ maps
EmptyMap == <<>>

Insert(m, k, v) == [x \in (DOMAIN m) \cup {k} |-> IF x = k THEN v ELSE m[x]]

\* output.entry(section).or_default()
OrDefault(out, s) == IF s \in DOMAIN out THEN out ELSE Insert(out, s, EmptyMap)

\* output.entry(section).or_default().insert(name, val)
EntryInsert(out, s, name, val) ==
    LET o == OrDefault(out, s) IN Insert(o, s, Insert(o[s], name, val))

\* ------------------------------------------------------------------ parse as a function
\* the for loop of parse from pair i on
RECURSIVE Walk(_, _, _, _)
Walk(pairs, i, out, cs) ==
    IF i > Len(pairs) THEN [tag |-> "Ok", output |-> out]
    ELSE LET line == pairs[i] IN
         CASE line.rule = "section" ->
                IF Len(line.inner) < 1 THEN [tag |-> "Finished"]
                ELSE Walk(pairs, i + 1, out, line.inner[1])
           [] line.rule = "property" ->
                IF Len(line.inner) < 2 THEN [tag |-> "Finished"]
                ELSE Walk(pairs, i + 1,
                          EntryInsert(out, cs, line.inner[1], line.inner[2]), cs)
           [] OTHER -> Walk(pairs, i + 1, out, cs)

parse(text) ==
    LET tree == FileRule(text) IN
    IF tree.ok THEN Walk(tree.pairs, 1, EmptyMap, Untagged)
    ELSE [tag |-> "UnsuccessfulParse"]

\* ------------------------------------------------------------------ state
VARIABLES
    call,             \* the public call in progress and its argument
    fs,               \* the files fs::read_to_string can see
    pc,               \* position in the call
    content,          \* the text handed to parse
    ini,              \* the top-level pairs of the file rule
    pos,              \* index of the next pair of the for loop
    output,
    current_section,
    result            \* what the call returned

vars == <<call, fs, pc, content, ini, pos, output, current_section, result>>

Paths == {"config.ini", "missing.ini"}
NoFile == [readable |-> FALSE, text |-> <<>>]
File(text) == [readable |-> TRUE, text |-> text]

Pending == [tag |-> "Pending"]
Ok(out) == [tag |-> "Ok", output |-> out]
Err(e)  == [tag |-> e]

Init ==
    /\ \E d \in Documents :
         /\ fs = [p \in Paths |-> IF p = "config.ini" THEN File(d) ELSE NoFile]
         /\ \/ call = [fn |-> "from_string", content |-> d]
            \/ \E p \in Paths : call = [fn |-> "from_file", path |-> p]
    /\ pc = "call"
    /\ content = <<>>
    /\ ini = <<>>
    /\ pos = 1
    /\ output = EmptyMap
    /\ current_section = Untagged
    /\ result = Pending

\* ------------------------------------------------------------------ calls
from_string ==
    /\ pc = "call"
    /\ call.fn = "from_string"
    /\ content' = call.content
    /\ pc' = "parse"
    /\ UNCHANGED <<call, fs, ini, pos, output, current_section, result>>

\* variant: a failed read reported as a parse failure
from_file_as_parse_error ==
    /\ pc = "call"
    /\ call.fn = "from_file"
    /\ IF fs[call.path].readable
       THEN /\ content' = fs[call.path].text
            /\ pc' = "parse"
            /\ UNCHANGED result
       ELSE /\ result' = Err("UnsuccessfulParse")
            /\ pc' = "done"
            /\ UNCHANGED content
    /\ UNCHANGED <<call, fs, ini, pos, output, current_section>>

from_file ==
    /\ pc = "call"
    /\ call.fn = "from_file"
    /\ IF fs[call.path].readable
       THEN /\ content' = fs[call.path].text
            /\ pc' = "parse"
            /\ UNCHANGED result
       ELSE /\ result' = Err("FileReadError")
            /\ pc' = "done"
            /\ UNCHANGED content
    /\ UNCHANGED <<call, fs, ini, pos, output, current_section>>

\* variant: current_section starts as the empty string
ParseBeginEmptySection(tree) ==
    /\ pc = "parse"
    /\ IF tree.ok
       THEN /\ ini' = tree.pairs
            /\ pos' = 1
            /\ output' = EmptyMap
            /\ current_section' = <<>>
            /\ pc' = "walk"
            /\ UNCHANGED result
       ELSE /\ result' = Err("UnsuccessfulParse")
            /\ pc' = "done"
            /\ UNCHANGED <<ini, pos, output, current_section>>
    /\ UNCHANGED <<call, fs, content>>

\* variant: a grammar failure is not returned, the loop runs over what matched
ParseBeginLenient(tree) ==
    /\ pc = "parse"
    /\ ini' = tree.pairs
    /\ pos' = 1
    /\ output' = EmptyMap
    /\ current_section' = Untagged
    /\ pc' = "walk"
    /\ UNCHANGED <<call, fs, content, result>>

\* parse, up to the for loop
ParseBegin(tree) ==
    /\ pc = "parse"
    /\ IF tree.ok
       THEN /\ ini' = tree.pairs
            /\ pos' = 1
            /\ output' = EmptyMap
            /\ current_section' = Untagged
            /\ pc' = "walk"
            /\ UNCHANGED result
       ELSE /\ result' = Err("UnsuccessfulParse")
            /\ pc' = "done"
            /\ UNCHANGED <<ini, pos, output, current_section>>
    /\ UNCHANGED <<call, fs, content>>

IniParse == ParseBegin(FileRule(content))

\* ------------------------------------------------------------------ for loop
AtPair(rules) ==
    /\ pc = "walk"
    /\ pos <= Len(ini)
    /\ ini[pos].rule \in rules

Fail(e) ==
    /\ result' = Err(e)
    /\ pc' = "done"
    /\ UNCHANGED <<call, fs, content, ini, pos, output, current_section>>

\* variant: entering a section starts its mapping afresh
SectionArmResets ==
    /\ AtPair({"section"})
    /\ LET line == ini[pos] IN
       IF Len(line.inner) < 1
       THEN Fail("Finished")
       ELSE /\ current_section' = line.inner[1]
            /\ output' = Insert(output, line.inner[1], EmptyMap)
            /\ pos' = pos + 1
            /\ UNCHANGED <<call, fs, pc, content, ini, result>>

\* variant: entering a section creates its entry when there is none
SectionArmCreates ==
    /\ AtPair({"section"})
    /\ LET line == ini[pos] IN
       IF Len(line.inner) < 1
       THEN Fail("Finished")
       ELSE /\ current_section' = line.inner[1]
            /\ output' = OrDefault(output, line.inner[1])
            /\ pos' = pos + 1
            /\ UNCHANGED <<call, fs, pc, content, ini, result>>

SectionArm ==
    /\ AtPair({"section"})
    /\ LET line == ini[pos] IN
       IF Len(line.inner) < 1
       THEN Fail("Finished")
       ELSE /\ current_section' = line.inner[1]
            /\ pos' = pos + 1
            /\ UNCHANGED <<call, fs, pc, content, ini, output, result>>

\* variant: every property goes to the default section
PropertyArmDefaultSection ==
    /\ AtPair({"property"})
    /\ LET prop == ini[pos].inner IN
       IF Len(prop) < 2
       THEN Fail("Finished")
       ELSE /\ output' = EntryInsert(output, Untagged, prop[1], prop[2])
            /\ pos' = pos + 1
            /\ UNCHANGED <<call, fs, pc, content, ini, current_section, result>>

\* variant: a name already present keeps its first value
PropertyArmKeepFirst ==
    /\ AtPair({"property"})
    /\ LET prop == ini[pos].inner IN
       IF Len(prop) < 2
       THEN Fail("Finished")
       ELSE /\ output' = IF /\ current_section \in DOMAIN output
                            /\ prop[1] \in DOMAIN output[current_section]
                         THEN output
                         ELSE EntryInsert(output, current_section, prop[1], prop[2])
            /\ pos' = pos + 1
            /\ UNCHANGED <<call, fs, pc, content, ini, current_section, result>>

\* variant: a missing value capture is taken as the empty string
PropertyArmDefaultValue ==
    /\ AtPair({"property"})
    /\ LET prop == ini[pos].inner IN
       IF Len(prop) < 1
       THEN Fail("Finished")
       ELSE /\ output' = EntryInsert(output, current_section, prop[1],
                                     IF Len(prop) < 2 THEN <<>> ELSE prop[2])
            /\ pos' = pos + 1
            /\ UNCHANGED <<call, fs, pc, content, ini, current_section, result>>

PropertyArm ==
    /\ AtPair({"property"})
    /\ LET prop == ini[pos].inner IN
       IF Len(prop) < 2
       THEN Fail("Finished")
       ELSE /\ output' = EntryInsert(output, current_section, prop[1], prop[2])
            /\ pos' = pos + 1
            /\ UNCHANGED <<call, fs, pc, content, ini, current_section, result>>

EOIArm ==
    /\ AtPair({"EOI"})
    /\ pos' = pos + 1
    /\ UNCHANGED <<call, fs, pc, content, ini, output, current_section, result>>

KnownRules == {"section", "property", "EOI"}
OtherRules == {"comment"}

\* the arm `_ => Err(InIParseError::Unreachable),` builds the value and the
\* statement's `;` drops it: no return, no `?`
WildcardArm ==
    /\ pc = "walk"
    /\ pos <= Len(ini)
    /\ ini[pos].rule \notin KnownRules
    /\ pos' = pos + 1
    /\ UNCHANGED <<call, fs, pc, content, ini, output, current_section, result>>

ParseEnd ==
    /\ pc = "walk"
    /\ pos > Len(ini)
    /\ result' = Ok(output)
    /\ pc' = "done"
    /\ UNCHANGED <<call, fs, content, ini, pos, output, current_section>>

Next ==
    \/ from_string
    \/ from_file
    \/ IniParse
    \/ SectionArm
    \/ PropertyArm
    \/ EOIArm
    \/ ParseEnd

Spec == Init /\ [][Next]_vars

\* ------------------------------------------------------------------ reducer alone
\* parse from the for loop on, over any sequence of pairs the generated
\* parser may hand over
TreeSections   == {Pair("section", i) : i \in {<<>>} \cup {<<s>> : s \in SectionNames}}
TreeProperties == {Pair("property", i) :
                     i \in {<<>>, <<<<"k">>>>, <<<<"j">>, <<"v">>>>}
                           \cup {<<<<"k">>, v>> : v \in PropValues}}
TreeOthers     == {Pair(r, <<>>) : r \in OtherRules}
TreePairs      == TreeSections \cup TreeProperties \cup TreeOthers \cup {EOI}
Trees          == SeqsUpTo(TreePairs, MaxNodes)

InitTree ==
    /\ call = [fn |-> "parse"]
    /\ fs = [p \in Paths |-> NoFile]
    /\ pc = "walk"
    /\ content = <<>>
    /\ ini \in Trees
    /\ pos = 1
    /\ output = EmptyMap
    /\ current_section = Untagged
    /\ result = Pending

NextTree ==
    \/ SectionArm
    \/ PropertyArm
    \/ EOIArm
    \/ WildcardArm
    \/ ParseEnd

SpecTree == InitTree /\ [][NextTree]_vars

\* ------------------------------------------------------------------ properties
Max(S) == CHOOSE m \in S : \A x \in S : x <= m

\* the pairs the for loop has gone through
Walked == 1..(pos - 1)
WalkedProps == {i \in Walked : ini[i].rule = "property"}

\* the section a pair at index i falls under: the name of the nearest
\* section pair before it, the default when there is none
SectionOf(i) ==
    LET S == {j \in 1..(i - 1) : ini[j].rule = "section"} IN
    IF S = {} THEN Untagged ELSE ini[Max(S)].inner[1]

ReturnedOk == pc = "done" /\ result.tag = "Ok"

\* C1: every property read is in the output under the section of the nearest
\* section pair before it (the default section when none precedes it), and the
\* output holds a key k under s only if a property named k was read while the
\* current section was s; the mapping returned is that output.
C1_PropertyInItsSection ==
    /\ \A i \in WalkedProps :
         /\ SectionOf(i) \in DOMAIN output
         /\ ini[i].inner[1] \in DOMAIN output[SectionOf(i)]
    /\ \A s \in DOMAIN output : \A k \in DOMAIN output[s] :
         \E i \in WalkedProps : SectionOf(i) = s /\ ini[i].inner[1] = k
    /\ ReturnedOk => result.output = output /\ pos = Len(ini) + 1

C1_Witness ==
    /\ ReturnedOk
    /\ Cardinality(DOMAIN result.output) = 2
    /\ Untagged \in DOMAIN result.output
    /\ \E i, j \in WalkedProps : i < j /\ SectionOf(i) # SectionOf(j)
                                  /\ ini[i].inner[1] = ini[j].inner[1]

\* C2: a property that comes before the first section header is returned under
\* the key "untagged"; the text " k = v " alone gives {"untagged": {"k": "v"}}.
C2_BeforeFirstHeaderUntagged ==
    ReturnedOk =>
      /\ \A i \in 1..Len(ini) :
           (ini[i].rule = "property"
              /\ \A j \in 1..(i - 1) : ini[j].rule # "section")
           => /\ Untagged \in DOMAIN result.output
              /\ ini[i].inner[1] \in DOMAIN result.output[Untagged]
      /\ content = <<" ", "k", " ", "=", " ", "v", " ">>
           => result.output = Insert(EmptyMap, Untagged,
                                     Insert(EmptyMap, <<"k">>, <<"v">>))

C2_Witness ==
    /\ ReturnedOk
    /\ Len(ini) >= 3
    /\ ini[1].rule = "property"
    /\ ini[2].rule = "section"
    /\ DOMAIN result.output = {Untagged}

\* C3: when a name occurs more than once within one section, the output has
\* the value of its last occurrence there; the other names keep their values.
C3_LastOccurrenceWins ==
    /\ \A s \in DOMAIN output : \A k \in DOMAIN output[s] :
         LET occ == {i \in WalkedProps : SectionOf(i) = s /\ ini[i].inner[1] = k}
         IN  occ # {} /\ output[s][k] = ini[Max(occ)].inner[2]
    /\ ReturnedOk => result.output = output

C3_Witness ==
    /\ ReturnedOk
    /\ \E i, j \in WalkedProps :
         /\ i < j
         /\ SectionOf(i) = SectionOf(j)
         /\ ini[i].inner[1] = ini[j].inner[1]
         /\ ini[i].inner[2] # ini[j].inner[2]
         /\ result.output[SectionOf(j)][ini[j].inner[1]] = ini[j].inner[2]
    /\ \E s \in DOMAIN result.output : Cardinality(DOMAIN result.output[s]) = 2

C5_UnreachablePropagates ==
    \A i \in 1..Len(ini) :
      ini[i].rule \notin KnownRules =>
        /\ pos <= i
        /\ result.tag # "Ok"
        /\ (pc = "done" /\ pos = i) => result = Err("Unreachable")

\* C6: a text with a malformed line is refused as a whole: the call returns
\* UnsuccessfulParse, the loop is never entered and nothing is written.
HasBadLine(text) ==
    \E i \in 1..Len(SplitLines(text)) : SplitLines(text)[i] \in BadLines

C6_AllOrNothing ==
    (pc \in {"walk", "done"} /\ HasBadLine(content)) =>
      /\ pc = "done"
      /\ result = Err("UnsuccessfulParse")
      /\ ini = <<>>
      /\ pos = 1
      /\ output = EmptyMap

C6_Witness ==
    /\ pc = "done"
    /\ result = Err("UnsuccessfulParse")
    /\ Len(SplitLines(content)) = 3
    /\ SplitLines(content)[1] \in PropertyLines
    /\ SplitLines(content)[2] = <<"[", "a">>
    /\ SplitLines(content)[3] \in PropertyLines

\* C7: from_file on an unreadable path returns FileReadError without entering
\* parse; on a readable path it returns what from_string returns on the text.
C7_FromFile ==
    call.fn = "from_file" =>
      IF fs[call.path].readable
      THEN pc = "done" => result = parse(fs[call.path].text)
      ELSE /\ pc \in {"call", "done"}
           /\ pc = "done" => result = Err("FileReadError")
           /\ content = <<>> /\ ini = <<>> /\ output = EmptyMap

C7_Witness ==
    /\ call.fn = "from_file"
    /\ fs[call.path].readable
    /\ ReturnedOk
    /\ Cardinality(DOMAIN result.output) = 2

\* C8: comment lines and blank lines change nothing: a valid text gives Ok and
\* the pairs, the mapping and the result of the text without those lines.
IsContentLine(l) == l \notin CommentLines \cup BlankLines

Stripped(text) == JoinLines(SelectSeq(SplitLines(text), IsContentLine))

C8_CommentsAndBlanksIgnored ==
    (pc \in {"walk", "done"} /\ ~HasBadLine(content) /\ result.tag # "FileReadError") =>
      /\ ini = FileRule(Stripped(content)).pairs
      /\ \A i \in 1..Len(ini) : ini[i].rule \in KnownRules
      /\ pc = "done" => result.tag = "Ok" /\ result = parse(Stripped(content))

C8_Witness ==
    /\ ReturnedOk
    /\ Len(SplitLines(content)) = 3
    /\ SplitLines(content)[1] \in SectionLines
    /\ SplitLines(content)[2] \in CommentLines
    /\ SplitLines(content)[3] \in PropertyLines
    /\ DOMAIN result.output = {ini[1].inner[1]}

\* C9: a section pair creates no output entry: the keys of the output are the
\* sections under which a property was read, no inner mapping is empty, and a
\* text without any property gives Ok with the empty mapping.
C9_EntriesOnlyFromProperties ==
    /\ DOMAIN output = {SectionOf(i) : i \in WalkedProps}
    /\ \A s \in DOMAIN output : DOMAIN output[s] # {}
    /\ ReturnedOk => result.output = output
    /\ (pc = "done" /\ result.tag # "FileReadError" /\ ~HasBadLine(content)
          /\ \A i \in 1..Len(ini) : ini[i].rule # "property")
       => result = Ok(EmptyMap)

C9_Witness ==
    /\ ReturnedOk
    /\ \E h1, h2 \in Walked : \E p \in WalkedProps :
         /\ h1 < h2 /\ h2 < p
         /\ ini[h1].rule = "section" /\ ini[h2].rule = "section"
         /\ ini[h1].inner[1] # ini[h2].inner[1]
         /\ DOMAIN result.output = {ini[h2].inner[1]}

\* C10: at a section pair without its name, or a property pair without its
\* name or its value, the call ends there with Finished: nothing is inserted,
\* no mapping is returned and no later pair is gone through.
Incomplete(p) ==
    \/ p.rule = "section" /\ Len(p.inner) < 1
    \/ p.rule = "property" /\ Len(p.inner) < 2

C10_MissingCaptureFinished ==
    [][(pc = "walk" /\ pos <= Len(ini) /\ Incomplete(ini[pos])) =>
         /\ pc' = "done"
         /\ result' = Err("Finished")
         /\ DOMAIN result' = {"tag"}
         /\ output' = output
         /\ pos' = pos]_vars

C10_Witness ==
    /\ pc = "done"
    /\ result = Err("Finished")
    /\ output # EmptyMap
    /\ ini[pos] = Pair("property", <<<<"k">>>>)
    /\ pos < Len(ini)

====
